---- MODULE Spec2Model ----
(***************************************************************************)
(* A model of rpt.py, the Ren'Py .rpt translation-template generator.      *)
(*                                                                         *)
(* Text is modelled as sequences of code points (integers); a file is the  *)
(* sequence of the characters it holds.  Three specifications share the    *)
(* module:                                                                 *)
(*   Spec        one run of main()                                         *)
(*   SpecDedup   deduplicate_rpt() applied twice to an arbitrary file      *)
(*   SpecEscape  quote() followed by the decoding of extract_dialogues()   *)
(***************************************************************************)
EXTENDS Integers, Sequences, FiniteSets, TLC

VARIABLES
    pc,             \* position of the run
    out_exists,     \* whether args.output_file exists
    outfile,        \* the characters of args.output_file
    rpy_files,      \* the list of .rpy files (glob order, then script.rpy first)
    fill_template,  \* args.fill_template
    label_texts,    \* main(): label_texts
    char_names,     \* main(): char_names
    patterns,       \* main(): the names single_re / multi_re were built from
    next_path,      \* main(): index of the next file of the extraction loop
    scans,          \* number of extract_dialogues() calls made so far
    all_texts,      \* main(): all_texts
    unique_texts,   \* main(): unique_texts
    before,         \* the characters of the file when deduplicate_rpt() last opened it
    lines,          \* deduplicate_rpt(): lines
    output_lines,   \* deduplicate_rpt(): output_lines
    kept,           \* indices of lines that deduplicate_rpt() appended to output_lines
    input,          \* SpecDedup: the file as first given
    s,              \* SpecEscape: the raw string
    q,              \* SpecEscape: quote(s)
    u               \* SpecEscape: q decoded as a string literal body

vars == <<pc, out_exists, outfile, rpy_files, fill_template,
          label_texts, char_names, patterns, next_path, scans, all_texts,
          unique_texts, before, lines, output_lines, kept, input, s, q, u>>

mainVars == <<out_exists, rpy_files, fill_template, label_texts,
              char_names, patterns, next_path, scans, all_texts, unique_texts>>

dedupVars == <<before, lines, output_lines, kept>>

escVars == <<s, q, u>>

---------------------------------------------------------------------------
(* Bounds of the model *)

MaxLines == 4       \* lines of a file given to deduplicate_rpt (SpecDedup)
MaxLen == 3         \* characters of a string given to quote (SpecEscape)
MaxStmts == 3       \* statements over all script files of the input directory

---------------------------------------------------------------------------
(* Characters *)

LF == 10            \* "\n"
CR == 13            \* "\r"
SP == 32            \* " "
DQ == 34            \* '"'
LT == 60            \* "<"
GT == 62            \* ">"
BSL == 92           \* "\\"
Cc == 99            \* "c", an ordinary letter
Cd == 100           \* "d", an ordinary letter
Cn == 110           \* "n"
Cr == 114           \* "r"
Ct == 116           \* "t"
EAcute == 233       \* U+00E9, a printable non-ASCII character
DecodeError == 0 - 1   \* stands for the UnicodeDecodeError of a truncated escape

\* str.isspace() for the code points below 256
WhiteSpace == {9, 10, 11, 12, 13, 28, 29, 30, 31, 32, 133, 160}

---------------------------------------------------------------------------
(* String helpers: the Python str methods the program uses *)

StartsWith(str, prefix) ==
    /\ Len(str) >= Len(prefix)
    /\ SubSeq(str, 1, Len(prefix)) = prefix

RECURSIVE RStrip(_)
RStrip(str) ==
    IF str = <<>> \/ str[Len(str)] \notin WhiteSpace
    THEN str
    ELSE RStrip(SubSeq(str, 1, Len(str) - 1))

RECURSIVE LStrip(_)
LStrip(str) ==
    IF str = <<>> \/ Head(str) \notin WhiteSpace
    THEN str
    ELSE LStrip(Tail(str))

Strip(str) == LStrip(RStrip(str))

\* str.replace(ch, by): every occurrence of the character ch becomes by
RECURSIVE Replace(_, _, _)
Replace(str, ch, by) ==
    IF str = <<>> THEN <<>>
    ELSE (IF Head(str) = ch THEN by ELSE <<Head(str)>>) \o Replace(Tail(str), ch, by)

RECURSIVE Concat(_)
Concat(strs) ==
    IF strs = <<>> THEN <<>> ELSE Head(strs) \o Concat(Tail(strs))

Range(f) == {f[i] : i \in DOMAIN f}

\* all sequences over S of length at most n
SeqsUpTo(S, n) == UNION {[1..k -> S] : k \in 0..n}

---------------------------------------------------------------------------
(* quote(), and the decoding of a single-line literal body *)

quote(str) == Replace(Replace(str, BSL, <<BSL, BSL>>), LF, <<BSL, Cn>>)

\* str.encode("utf-8"), for code points below 65536
Utf8Char(c) ==
    IF c < 128 THEN <<c>>
    ELSE IF c < 2048 THEN <<192 + (c \div 64), 128 + (c % 64)>>
    ELSE <<224 + (c \div 4096), 128 + ((c \div 64) % 64), 128 + (c % 64)>>

RECURSIVE Utf8Encode(_)
Utf8Encode(str) ==
    IF str = <<>> THEN <<>> ELSE Utf8Char(Head(str)) \o Utf8Encode(Tail(str))

\* bytes.decode("unicode_escape"): a byte that is not part of an escape is the
\* code point of the same number (Latin-1); the escapes modelled are
\* \\ \n \r \t \" ; a backslash before any other modelled character stays,
\* with that character; a backslash that ends the input is an error.
RECURSIVE UnicodeEscape(_)
UnicodeEscape(bytes) ==
    IF bytes = <<>> THEN <<>>
    ELSE IF Head(bytes) # BSL THEN <<Head(bytes)>> \o UnicodeEscape(Tail(bytes))
    ELSE IF Len(bytes) = 1 THEN <<DecodeError>>
    ELSE LET e == bytes[2]
             rest == UnicodeEscape(Tail(Tail(bytes)))
         IN  CASE e = BSL -> <<BSL>> \o rest
               [] e = Cn  -> <<LF>> \o rest
               [] e = Cr  -> <<CR>> \o rest
               [] e = Ct  -> <<9>> \o rest
               [] e = DQ  -> <<DQ>> \o rest
               [] e = LF  -> rest
               [] OTHER   -> <<BSL>> \o UnicodeEscape(Tail(bytes))

\* m.group("text").encode("utf-8").decode("unicode_escape")
Unescape(body) == UnicodeEscape(Utf8Encode(body))

---------------------------------------------------------------------------
(* Reading a text file: open(path, encoding="utf-8"), newline=None *)

UniversalNewlinesOff(chars) == chars

Indices(str) == [i \in 1..Len(str) |-> i]

\* universal newlines: "\r\n" and "\r" are read as "\n"
UniversalNewlines(chars) ==
    LET AfterCR(i) == i > 1 /\ chars[i] = LF /\ chars[i - 1] = CR
        Stays(i) == ~AfterCR(i)
        at == SelectSeq(Indices(chars), Stays)
    IN  [k \in 1..Len(at) |-> IF chars[at[k]] = CR THEN LF ELSE chars[at[k]]]

\* the lines of a text, each with its "\n", the last possibly without
SplitLines(text) ==
    LET IsEnd(i) == text[i] = LF
        ends == SelectSeq(Indices(text), IsEnd)
        First(k) == IF k = 1 THEN 1 ELSE ends[k - 1] + 1
        whole == [k \in 1..Len(ends) |-> SubSeq(text, First(k), ends[k])]
        last == First(Len(ends) + 1)
    IN  IF last <= Len(text) THEN Append(whole, SubSeq(text, last, Len(text))) ELSE whole

\* fin.readlines()
ReadLines(chars) == SplitLines(UniversalNewlines(chars))

---------------------------------------------------------------------------
(* deduplicate_rpt() *)

SrcMarker == <<LT, SP>>     \* "< "
TransMarker == <<GT>>       \* ">"

IsBlank(line) == Strip(line) = <<>>

\* src = lines[i][2:].rstrip()
Payload(line) == RStrip(SubSeq(line, 3, Len(line)))

SeenAddForgotten(seen, src) == seen

\* seen.add(src)
SeenAdd(seen, src) == seen \cup {src}

EnsureCrlfForgotten(line) == line

\* lines[i].replace('\n', '\r\n')
EnsureCrlf(line) == Replace(line, LF, <<CR, LF>>)

\* output_lines.append(lines[i].replace('\n', '\r\n')); kept records the index
Emit(st, lns, i) ==
    [st EXCEPT !.out = Append(@, EnsureCrlf(lns[i])), !.kept = Append(@, i)]

\* while i < len(lines) and lines[i].strip() == "": append, i += 1
RECURSIVE KeepBlanks(_, _, _)
KeepBlanks(st, lns, i) ==
    IF i <= Len(lns) /\ IsBlank(lns[i])
    THEN KeepBlanks(Emit(st, lns, i), lns, i + 1)
    ELSE [st EXCEPT !.i = i]

\* while i < len(lines) and (lines[i].startswith(">") or lines[i].strip() == ""): i += 1
RECURSIVE SkipBlock(_, _)
SkipBlock(lns, i) ==
    IF i <= Len(lns) /\ (StartsWith(lns[i], TransMarker) \/ IsBlank(lns[i]))
    THEN SkipBlock(lns, i + 1)
    ELSE i

\* the while loop of deduplicate_rpt, from index st.i (1-based) on
RECURSIVE Scan(_, _)
Scan(lns, st) ==
    LET i == st.i IN
    IF i > Len(lns) THEN st
    ELSE IF StartsWith(lns[i], SrcMarker)
    THEN LET src == Payload(lns[i]) IN
         IF src \notin st.seen
         THEN LET st1 == Emit([st EXCEPT !.seen = SeenAdd(@, src)], lns, i)
                  hasTrans == i + 1 <= Len(lns) /\ StartsWith(lns[i + 1], TransMarker)
                  st2 == IF hasTrans THEN Emit(st1, lns, i + 1) ELSE st1
                  j == IF hasTrans THEN i + 2 ELSE i + 1
              IN  Scan(lns, KeepBlanks(st2, lns, j))
         ELSE Scan(lns, [st EXCEPT !.i = SkipBlock(lns, i + 1)])
    ELSE Scan(lns, [Emit(st, lns, i) EXCEPT !.i = i + 1])

\* the state of the loop after the whole of lns was scanned
Dedup(lns) == Scan(lns, [i |-> 1, seen |-> {}, out |-> <<>>, kept |-> <<>>])

\* deduplicate_rpt(filepath): read the lines, scan, write output_lines
\* with newline="" (no translation on writing)
DeduplicateFile ==
    LET lns == ReadLines(outfile)
        st == Dedup(lns)
    IN  /\ before' = outfile
        /\ lines' = lns
        /\ output_lines' = st.out
        /\ kept' = st.kept
        /\ outfile' = Concat(st.out)

---------------------------------------------------------------------------
(* SpecDedup: deduplicate_rpt() run twice on an arbitrary file *)

\* line contents a file is made of: "< c", "< c " , "< d", "> c", ">", "", " ", "c"
\* each with a line terminator: "\n", "\r\n" or "\r"
LinePool ==
    { <<LT, SP, Cc, LF>>, <<LT, SP, Cc, SP, CR, LF>>, <<LT, SP, Cd, LF>>,
      <<GT, SP, Cc, CR, LF>>, <<GT, CR>>, <<LF>>, <<SP, CR, LF>>, <<Cc, LF>> }

\* the last line of a file may lack its terminator
FinalPool == { <<>>, <<LT, SP, Cc>>, <<GT, SP, Cd>> }

InputFiles == { Concat(ls) \o fin : ls \in SeqsUpTo(LinePool, MaxLines), fin \in FinalPool }

NoMain ==
    /\ out_exists = TRUE
    /\ rpy_files = <<>>
    /\ fill_template = FALSE
    /\ label_texts = <<>>
    /\ char_names = <<>>
    /\ patterns = <<>>
    /\ next_path = 1
    /\ scans = 0
    /\ all_texts = <<>>
    /\ unique_texts = <<>>

NoDedup ==
    /\ before = <<>>
    /\ lines = <<>>
    /\ output_lines = <<>>
    /\ kept = <<>>

NoEscape ==
    /\ s = <<>>
    /\ q = <<>>
    /\ u = <<>>

InitDedup ==
    /\ pc = "file"
    /\ input \in InputFiles
    /\ outfile = input
    /\ NoMain /\ NoDedup /\ NoEscape

DedupOnce ==
    /\ pc = "file"
    /\ DeduplicateFile
    /\ pc' = "once"
    /\ UNCHANGED <<mainVars, escVars, input>>

DedupTwice ==
    /\ pc = "once"
    /\ DeduplicateFile
    /\ pc' = "twice"
    /\ UNCHANGED <<mainVars, escVars, input>>

NextDedup == DedupOnce \/ DedupTwice

SpecDedup == InitDedup /\ [][NextDedup]_vars

---------------------------------------------------------------------------
(* SpecEscape: quote(s), then the decoding extract_dialogues() applies *)

EscAlphabet == {Cc, Cn, BSL, LF, EAcute}

InitEscape ==
    /\ pc = "raw"
    /\ s \in SeqsUpTo(EscAlphabet, MaxLen)
    /\ q = <<>>
    /\ u = <<>>
    /\ input = <<>>
    /\ outfile = <<>>
    /\ NoMain /\ NoDedup

Quote ==
    /\ pc = "raw"
    /\ q' = quote(s)
    /\ pc' = "quoted"
    /\ UNCHANGED <<mainVars, dedupVars, input, outfile, s, u>>

Decode ==
    /\ pc = "quoted"
    /\ u' = Unescape(q)
    /\ pc' = "decoded"
    /\ UNCHANGED <<mainVars, dedupVars, input, outfile, s, q>>

NextEscape == Quote \/ Decode

SpecEscape == InitEscape /\ [][NextEscape]_vars

---------------------------------------------------------------------------
(* The script sources.  A source file is a name and the sequence of the     *)
(* statements the program's regular expressions can match in it:           *)
(*   define  `define NAME = Character(`  or  `$ NAME = Character(`          *)
(*   say     `NAME "TEXT"`          text: the body of the literal           *)
(*   say3    `NAME """` ... `"""`   text: the captured block                *)
(*   choice  `"TEXT":`              text: the quoted string                 *)
(*   label   `label _("TEXT")`  or  `textbutton _("TEXT")`                  *)

Stmt(kind, name, text) == [kind |-> kind, name |-> name, text |-> text]

StartGame == <<83, 116, 97, 114, 116, 32, 71, 97, 109, 101>>    \* "Start Game"
QuitText == <<81, 117, 105, 116>>                                \* "Quit"

\* statements of the script files of the input directory
StmtPool ==
    { Stmt("define", "e", <<>>),
      Stmt("say", "e", <<Cc>>),                     \* e "c"
      Stmt("say", "e", <<Cc, BSL, Cr, Cd>>),        \* e "c\rd"
      Stmt("say3", "e", <<Cc, SP, LF, Cd>>),        \* e """ / c / d / """
      Stmt("choice", "", QuitText) }                \* "Quit":

\* contents of screens.rpy
ScreensPool ==
    { <<>>, <<Stmt("label", "", StartGame), Stmt("label", "", QuitText)>> }

File(name, stmts) == [name |-> name, stmts |-> stmts]

ScriptPath == "script.rpy"      \* os.path.join(args.input_dir, "script.rpy")
ScreensPath == "screens.rpy"    \* os.path.join(args.input_dir, "screens.rpy")

\* the contents of script.rpy and of one other script, MaxStmts statements in all
ScriptContents ==
    UNION { { <<a, b>> : a \in [1..k -> StmtPool], b \in SeqsUpTo(StmtPool, MaxStmts - k) }
            : k \in 0..MaxStmts }

\* the sets of files an input directory can hold: a file without statements
\* may also be absent
Directories ==
    UNION { { pa \cup pb \cup sc
              : pa \in {{File(ScriptPath, c[1])}} \cup (IF c[1] = <<>> THEN {{}} ELSE {}),
                pb \in {{File("b.rpy", c[2])}} \cup (IF c[2] = <<>> THEN {{}} ELSE {}),
                sc \in {{}} \cup {{File(ScreensPath, l)} : l \in ScreensPool} }
            : c \in ScriptContents }

\* glob(pattern, recursive=True): the files of the directory in the order the
\* directory scan gives; here the other files come by name and script.rpy
\* comes at any place among them
GlobResults(dir) ==
    LET Named(n) == {f \in dir : f.name = n}
        One(n) == IF Named(n) = {} THEN <<>> ELSE <<CHOOSE f \in Named(n) : TRUE>>
        others == One("b.rpy") \o One(ScreensPath)
    IN  IF Named(ScriptPath) = {} THEN {others}
        ELSE { SubSeq(others, 1, k) \o One(ScriptPath) \o SubSeq(others, k + 1, Len(others))
               : k \in 0..Len(others) }

---------------------------------------------------------------------------
(* The functions of the extraction *)

\* first occurrences, in order: `if short not in names: names.append(short)`
RECURSIVE FirstOccurrences(_, _)
FirstOccurrences(items, acc) ==
    IF items = <<>> THEN acc
    ELSE FirstOccurrences(Tail(items),
                          IF Head(items) \in Range(acc) THEN acc ELSE Append(acc, Head(items)))

\* the statements of the files, in file order then statement order
RECURSIVE AllStmts(_)
AllStmts(files) ==
    IF files = <<>> THEN <<>> ELSE Head(files).stmts \o AllStmts(Tail(files))

gather_char_names(files) ==
    LET IsDefine(st) == st.kind = "define"
        defs == SelectSeq(AllStmts(files), IsDefine)
    IN  FirstOccurrences([i \in 1..Len(defs) |-> defs[i].name], <<>>)

\* str.splitlines() of a text whose only line boundary is "\n"
RECURSIVE SplitNoEnds(_)
SplitNoEnds(text) ==
    IF text = <<>> THEN <<>>
    ELSE LET ends == {i \in 1..Len(text) : text[i] = LF}
         IN  IF ends = {} THEN <<text>>
             ELSE LET e == CHOOSE i \in ends : \A j \in ends : i <= j
                  IN  <<SubSeq(text, 1, e - 1)>> \o SplitNoEnds(SubSeq(text, e + 1, Len(text)))

\* "\n".join(lines)
RECURSIVE JoinLF(_)
JoinLF(lns) ==
    IF lns = <<>> THEN <<>>
    ELSE IF Len(lns) = 1 THEN lns[1]
    ELSE lns[1] \o <<LF>> \o JoinLF(Tail(lns))

\* extract_dialogues(): single-line matches, then multi-line, then menu choices;
\* names is the list the patterns were built from.  The single-line pattern
\* also matches the opening `NAME ""` of a triple-quoted block, with an empty text
extract_dialogues(file, names) ==
    LET IsSingle(st) == st.kind \in {"say", "say3"} /\ st.name \in Range(names)
        IsMulti(st) == st.kind = "say3" /\ st.name \in Range(names)
        IsChoice(st) == st.kind = "choice"
        Single(st) == IF st.kind = "say" THEN Strip(Unescape(st.text)) ELSE <<>>
        Multi(st) == LET lns == SplitNoEnds(st.text)
                     IN  Strip(JoinLF([i \in 1..Len(lns) |-> RStrip(lns[i])]))
        Choice(st) == Strip(st.text)
        singles == SelectSeq(file.stmts, IsSingle)
        multis == SelectSeq(file.stmts, IsMulti)
        choices == SelectSeq(file.stmts, IsChoice)
    IN  [i \in 1..Len(singles) |-> Single(singles[i])]
        \o [i \in 1..Len(multis) |-> Multi(multis[i])]
        \o [i \in 1..Len(choices) |-> Choice(choices[i])]

extract_screen_texts(file) ==
    LET IsLabel(st) == st.kind = "label"
        labels == SelectSeq(file.stmts, IsLabel)
    IN  [i \in 1..Len(labels) |-> labels[i].text]

\* `if t and t not in seen: seen.add(t); unique_texts.append(t)`
UniqueTexts(texts) ==
    LET NonEmpty(t) == t # <<>>
    IN  FirstOccurrences(SelectSeq(texts, NonEmpty), <<>>)

\* `< q_orig`, `> q_trans`, and a blank line, each ended by nl
TemplateRecord(orig, fill, nl) ==
    SrcMarker \o quote(orig) \o nl
    \o <<GT, SP>> \o (IF fill THEN quote(orig) ELSE <<>>) \o nl \o nl

RECURSIVE WriteRecords(_, _, _)
WriteRecords(texts, fill, nl) ==
    IF texts = <<>> THEN <<>>
    ELSE TemplateRecord(Head(texts), fill, nl) \o WriteRecords(Tail(texts), fill, nl)

----------------------------------------------------------------------------
(* The fixed captions main() adds after the screen texts.  Each is a string *)
(* of printable ASCII characters without backslash or newline, and no two   *)
(* are equal; a caption is abbreviated to the characters that tell it apart *)

NumSlots == 9           \* range(1, 10)
NumJoystick == 22       \* len(joystick_lines)

\* f" {i}. Empty Slot.": the leading space and the digit
EmptySlots == [i \in 1..NumSlots |-> <<SP, 48 + i>>]

\* "Are you sure you want to quit?"
QuitConfirm == <<63>>

\* the joystick captions: "A" .. "V"
joystick_lines == [k \in 1..NumJoystick |-> <<64 + k>>]

\* everything the screens.rpy branch writes, newline="\n"
ScreensPhase(labels, fill) ==
    WriteRecords(labels \o EmptySlots \o <<QuitConfirm>> \o joystick_lines, fill, <<LF>>)

\* the records of the script dialogues, newline=""
DialoguePhase(texts, fill) == WriteRecords(texts, fill, <<CR, LF>>)

---------------------------------------------------------------------------
(* Spec: one run of main() *)

\* what an output file left by an earlier run holds
OldContent == <<LT, SP, Cd, CR, LF, GT, SP, Cd, CR, LF, CR, LF>>

HasFile(files, name) == \E i \in 1..Len(files) : files[i].name = name

FileNamed(files, name) == files[CHOOSE i \in 1..Len(files) : files[i].name = name]

\* rpy_files.remove(script_path); rpy_files.insert(0, script_path)
ScriptFirst(files) ==
    IF HasFile(files, ScriptPath)
    THEN LET NotScript(f) == f.name # ScriptPath
         IN  <<FileNamed(files, ScriptPath)>> \o SelectSeq(files, NotScript)
    ELSE files

NoCharNamesUnchecked(names) == FALSE

\* `if not char_names`
NoCharNames(names) == names = <<>>

Init ==
    /\ pc = "start"
    /\ out_exists \in BOOLEAN
    /\ outfile = IF out_exists THEN OldContent ELSE <<>>
    /\ \E dir \in Directories : rpy_files \in GlobResults(dir)
    /\ fill_template \in BOOLEAN
    /\ label_texts = <<>>
    /\ char_names = <<>>
    /\ patterns = <<>>
    /\ next_path = 1
    /\ scans = 0
    /\ all_texts = <<>>
    /\ unique_texts = <<>>
    /\ input = <<>>
    /\ NoDedup /\ NoEscape

\* 1. Read .rpy files: `if not rpy_files: sys.exit(...)`
FindFiles ==
    /\ pc = "start"
    /\ pc' = IF rpy_files = <<>> THEN "fatal_nofiles" ELSE "screens"
    /\ UNCHANGED <<mainVars, dedupVars, escVars, input, outfile>>

\* Check for screens.rpy first: write its texts and the fixed captions,
\* or create/clear the output file
WriteScreens ==
    /\ pc = "screens"
    /\ IF HasFile(rpy_files, ScreensPath)
       THEN LET labels == extract_screen_texts(FileNamed(rpy_files, ScreensPath))
            IN  /\ label_texts' = labels
                /\ outfile' = ScreensPhase(labels, fill_template)
       ELSE /\ label_texts' = <<>>
            /\ outfile' = <<>>
    /\ out_exists' = TRUE
    /\ pc' = "script"
    /\ UNCHANGED <<rpy_files, fill_template, char_names, patterns,
                   next_path, scans, all_texts, unique_texts, dedupVars, escVars, input>>

\* 2. Read script.rpy: it goes to the front of rpy_files
ReadScript ==
    /\ pc = "script"
    /\ rpy_files' = ScriptFirst(rpy_files)
    /\ pc' = "names"
    /\ UNCHANGED <<out_exists, outfile, fill_template, label_texts,
                   char_names, patterns, next_path, scans, all_texts, unique_texts,
                   dedupVars, escVars, input>>

\* 3. Discover character names from definitions
DiscoverNames ==
    /\ pc = "names"
    /\ char_names' = gather_char_names(rpy_files)
    /\ pc' = IF NoCharNames(char_names') THEN "fatal_nochars" ELSE "patterns"
    /\ UNCHANGED <<out_exists, outfile, rpy_files, fill_template,
                   label_texts, patterns, next_path, scans, all_texts, unique_texts,
                   dedupVars, escVars, input>>

\* 4. Build dialogue extraction patterns
BuildPatterns ==
    /\ pc = "patterns"
    /\ patterns' = char_names
    /\ all_texts' = <<>>
    /\ next_path' = 1
    /\ pc' = "extract"
    /\ UNCHANGED <<out_exists, outfile, rpy_files, fill_template,
                   label_texts, char_names, scans, unique_texts, dedupVars, escVars, input>>

\* 5. Extract dialogues: one turn of `for path in rpy_files`
ExtractDialogues ==
    /\ pc = "extract"
    /\ next_path <= Len(rpy_files)
    /\ all_texts' = all_texts \o extract_dialogues(rpy_files[next_path], patterns)
    /\ next_path' = next_path + 1
    /\ scans' = scans + 1
    /\ UNCHANGED <<pc, out_exists, outfile, rpy_files, fill_template,
                   label_texts, char_names, patterns, unique_texts, dedupVars, escVars, input>>

\* 6. Deduplicate and validate
Deduplicate ==
    /\ pc = "extract"
    /\ next_path > Len(rpy_files)
    /\ unique_texts' = UniqueTexts(all_texts)
    /\ pc' = IF unique_texts' = <<>> THEN "fatal_notext" ELSE "write"
    /\ UNCHANGED <<out_exists, outfile, rpy_files, fill_template,
                   label_texts, char_names, patterns, next_path, scans, all_texts,
                   dedupVars, escVars, input>>

\* 7. Write .rpt: append the script dialogues
WriteRpt ==
    /\ pc = "write"
    /\ outfile' = outfile \o DialoguePhase(unique_texts, fill_template)
    /\ pc' = "dedup"
    /\ UNCHANGED <<mainVars, dedupVars, escVars, input>>

\* Deduplicate the .rpt file after writing everything
DeduplicateRpt ==
    /\ pc = "dedup"
    /\ DeduplicateFile
    /\ pc' = "done"
    /\ UNCHANGED <<mainVars, escVars, input>>

Next ==
    \/ FindFiles
    \/ WriteScreens
    \/ ReadScript
    \/ DiscoverNames
    \/ BuildPatterns
    \/ ExtractDialogues
    \/ Deduplicate
    \/ WriteRpt
    \/ DeduplicateRpt

Spec == Init /\ [][Next]_vars

---------------------------------------------------------------------------
(* Notions the properties are stated with *)

IsSrcLine(line) == StartsWith(line, SrcMarker)

IsTransLine(line) == StartsWith(line, TransMarker)

\* a line without its line terminator
RECURSIVE Body(_)
Body(line) ==
    IF line # <<>> /\ line[Len(line)] \in {CR, LF}
    THEN Body(SubSeq(line, 1, Len(line) - 1))
    ELSE line

\* the source lines of lns that repeat no earlier source line's payload
FirstSources(lns) ==
    { i \in 1..Len(lns) :
        /\ IsSrcLine(lns[i])
        /\ \A j \in 1..(i - 1) : IsSrcLine(lns[j]) => Payload(lns[j]) # Payload(lns[i]) }

\* the source lines of lns whose payload an earlier source line has
RepeatedSources(lns) == { i \in 1..Len(lns) : IsSrcLine(lns[i]) } \ FirstSources(lns)

Dropped == (1..Len(lines)) \ Range(kept)

DedupRan == pc \in {"once", "twice", "done"}

---------------------------------------------------------------------------
(* Properties of deduplicate_rpt(), under SpecDedup *)

\* C1: after deduplicate_rpt no two emitted lines that start with "< " have
\* equal payloads, the emitted source lines are exactly the first occurrences
\* of their payloads in the input, and every emitted line is an input line,
\* in the order of the input.
C1_KeepsFirstOccurrences ==
    DedupRan =>
        LET emitted == { k \in 1..Len(output_lines) : IsSrcLine(output_lines[k]) } IN
        /\ \A a, b \in emitted :
               Payload(output_lines[a]) = Payload(output_lines[b]) => a = b
        /\ { kept[k] : k \in emitted } = FirstSources(lines)
        /\ Len(kept) = Len(output_lines)
        /\ \A k \in 1..Len(kept) :
               /\ Body(output_lines[k]) = Body(lines[kept[k]])
               /\ k > 1 => kept[k - 1] < kept[k]

\* a file in which a payload occurs twice has been deduplicated
C1_Witness ==
    /\ pc = "once"
    /\ RepeatedSources(lines) # {}
    /\ \E k \in 1..Len(output_lines) : IsSrcLine(output_lines[k])

\* C2: deduplicate_rpt is idempotent: the second run leaves the file, character
\* for character, as the first run wrote it.
C2_Idempotent == pc = "twice" => outfile = before

\* the second run has ended on a file from which the first run dropped lines
C2_Witness ==
    /\ pc = "twice"
    /\ Len(lines) < Len(ReadLines(input))
    /\ lines # <<>>

\* the lines the claim C10 lets deduplicate_rpt drop for the repeated source
\* line i: that line, one translation line right after it, and the blank
\* lines right after those
RECURSIVE BlankRun(_, _)
BlankRun(lns, j) ==
    IF j <= Len(lns) /\ IsBlank(lns[j]) THEN {j} \cup BlankRun(lns, j + 1) ELSE {}

Block(lns, i) ==
    IF i + 1 <= Len(lns) /\ IsTransLine(lns[i + 1])
    THEN {i, i + 1} \cup BlankRun(lns, i + 2)
    ELSE {i} \cup BlankRun(lns, i + 1)

\* C10: for a source line whose payload was already seen, deduplicate_rpt drops
\* exactly that line, at most one translation line right after it and the
\* blank lines right after; every other line is passed to the output.
C10_DropsOnlyTheBlock ==
    pc = "once" => Dropped = UNION { Block(lines, i) : i \in RepeatedSources(lines) }

---------------------------------------------------------------------------
(* The round trip, under SpecEscape *)

\* C6: decoding the quoted form of a string of printable characters,
\* backslashes and newlines gives the string back.
C6_RoundTrip == pc = "decoded" => u = s

---------------------------------------------------------------------------
(* Properties of a run of main(), under Spec *)

Untouched ==
    \/ ~out_exists /\ outfile = <<>>
    \/ out_exists /\ outfile = OldContent

HasDefinition == gather_char_names(rpy_files) # <<>>

\* C3: the unique texts handed to the writer hold no empty string and no text
\* twice, hold every non-empty extracted text, in the order of first
\* occurrence; and each of them has exactly one record in the final file.
C3_OneRecordPerText ==
    /\ pc \in {"write", "dedup", "done"} =>
        /\ <<>> \notin Range(unique_texts)
        /\ \A a, b \in 1..Len(unique_texts) : unique_texts[a] = unique_texts[b] => a = b
        /\ Range(unique_texts) = Range(all_texts) \ {<<>>}
        /\ \A a, b \in 1..Len(unique_texts) :
               a < b => \E i \in 1..Len(all_texts) :
                            /\ all_texts[i] = unique_texts[a]
                            /\ \A j \in 1..i : all_texts[j] # unique_texts[b]
    /\ pc = "done" =>
        \A t \in Range(unique_texts) :
            Cardinality({ k \in 1..Len(output_lines) :
                            output_lines[k] = SrcMarker \o quote(t) \o <<CR, LF>> }) = 1

\* C4: a run that ends because no script source or no character definition
\* was found has not created, truncated or written the output file.
C4_NoWriteBeforeValidation ==
    pc \in {"fatal_nofiles", "fatal_nochars"} => Untouched

\* C5: the run ends for lack of text only when neither dialogue nor label text
\* was extracted; and once the labels `Start Game`, `Quit` were written, the
\* first two records of the file are theirs.
C5_FatalOnlyWithoutAnyText ==
    /\ pc = "fatal_notext" => label_texts = <<>>
    /\ (label_texts = <<StartGame, QuitText>> /\ pc \in {"done", "fatal_notext", "fatal_nochars"}) =>
        LET lns == ReadLines(outfile) IN
        /\ Len(lns) >= 4
        /\ Body(lns[1]) = SrcMarker \o StartGame
        /\ Body(lns[4]) = SrcMarker \o QuitText

\* C7: in the final file every source line is followed by its translation
\* line, whose payload is the source payload when the pre-fill flag is set and
\* is empty when it is not.
C7_TranslationFollowsSource ==
    pc = "done" =>
        \A k \in 1..Len(output_lines) :
            IsSrcLine(output_lines[k]) =>
                /\ k < Len(output_lines)
                /\ StartsWith(output_lines[k + 1], <<GT, SP>>)
                /\ SubSeq(Body(output_lines[k + 1]), 3, Len(Body(output_lines[k + 1])))
                     = IF fill_template
                       THEN SubSeq(Body(output_lines[k]), 3, Len(Body(output_lines[k])))
                       ELSE <<>>

\* C8: when no source holds a character definition the run ends before
\* any pattern is built and before any file is scanned for dialogue; no scan
\* runs with an empty list of names.
C8_NoScanWithoutNames ==
    /\ pc = "fatal_nochars" => scans = 0 /\ patterns = <<>> /\ ~HasDefinition
    /\ (scans > 0 \/ pc = "extract") => patterns # <<>>
    /\ ~HasDefinition =>
           pc \in {"start", "fatal_nofiles", "screens", "script", "names", "fatal_nochars"}

\* the run has ended for lack of character definitions although a source
\* holds dialogue statements
C8_Witness ==
    /\ pc = "fatal_nochars"
    /\ \E i \in 1..Len(rpy_files) :
           \E j \in 1..Len(rpy_files[i].stmts) : rpy_files[i].stmts[j].kind = "say"

\* C9: after the deduplication pass every line of the file ends in "\r\n":
\* no line ends in a bare "\n", in "\r\r\n" or in a bare "\r", and the last
\* line is terminated.
C9_AllLinesCrlf ==
    pc = "done" =>
        /\ outfile # <<>>
        /\ outfile[Len(outfile)] = LF
        /\ \A i \in 1..Len(outfile) :
               /\ outfile[i] = LF =>
                      /\ i > 1
                      /\ outfile[i - 1] = CR
                      /\ i > 2 => outfile[i - 2] # CR
               /\ outfile[i] = CR => i < Len(outfile) /\ outfile[i + 1] = LF

\* the pass has ended on a file that held lines ended by a bare "\n" (written
\* by the screens.rpy branch) and a line that is no part of a record
C9_Witness ==
    /\ pc = "done"
    /\ \E i \in 1..Len(before) : before[i] = LF /\ (i = 1 \/ before[i - 1] # CR)
    /\ \E k \in 1..Len(lines) :
           ~IsSrcLine(lines[k]) /\ ~IsTransLine(lines[k]) /\ ~IsBlank(lines[k])

====
